---- MODULE Spec2Model ----
(***************************************************************************)
(* Safe-Passage: the simulated payout engine of src/payout_simulator.py.   *)
(*                                                                         *)
(* A PayoutOrchestrator creates a PayoutTransaction (initiate_payout) and  *)
(* recomputes its status from the wall clock on every check_status.  The   *)
(* caller (src/main.py, the Emergency tab) keeps one transaction in its    *)
(* session and polls it.                                                   *)
(*                                                                         *)
(* Time is counted in whole seconds from the start of the session; a       *)
(* datetime is the number of seconds, a timedelta a difference of two.     *)
(* One call of initiate_payout or check_status happens at one instant: the *)
(* two datetime.now() reads inside one call are microseconds apart and are *)
(* modelled as the same reading.                                           *)
(*                                                                         *)
(* Optional[...] fields are sequences of length at most one: None is <<>>, *)
(* a present value x is <<x>>.                                             *)
(***************************************************************************)
EXTENDS Integers, Sequences, FiniteSets, TLC

VARIABLES
    now,                \* datetime.now(), in seconds
    payout_transaction, \* st.session_state.payout_transaction (None or one)
    issued,             \* ghost: the transaction as initiate_payout returned it
    polls,              \* ghost: what each check_status call returned, in order
    last_call,          \* ghost: the last orchestrator call and its outcome
    oracle_call,        \* ghost: the last get_recommendations call and its result
    active_alerts,      \* the risk monitor's active_alerts
    current_location,   \* user.current_location
    monitor_call,       \* ghost: the last risk monitor call and its outcome
    simulator,          \* a ChaosSimulator: its current_level and its alerts
    chaos_call          \* ghost: the last get_network_effects call on it

vars == <<now, payout_transaction, issued, polls, last_call,
          oracle_call, active_alerts, current_location, monitor_call,
          simulator, chaos_call>>

None == <<>>
Some(x) == <<x>>
Get(opt) == opt[1]

(***************************************************************************)
(* Bounds of the model.                                                    *)
(***************************************************************************)
\* check_status calls recorded for one transaction
MaxPolls == 3
\* the last clock reading of a session, in seconds (48 hours and 30 seconds)
MaxClock == 172830
\* initiate_payout is called no later than this, so that the window of the
\* slowest method (48 hours) fits before MaxClock
LastStart == 30

\* The clock readings at which the caller acts: the thresholds of the four
\* methods measured from 0, and the same thresholds missed by 30 seconds
\* when measured from 30.
Marks ==
    {0, 30, 60, 120, 300, 330, 600, 660, 1200, 1800, 3600, 10800,
     172800, 172830}
Instants == {s \in Marks : s <= MaxClock}

(***************************************************************************)
(* models.PayoutMethod and the inputs of initiate_payout.                  *)
(***************************************************************************)
CRYPTO_WALLET == "crypto_wallet"
WIRE_TRANSFER == "wire_transfer"
CASH_PICKUP == "cash_pickup"
MOBILE_MONEY == "mobile_money"
PayoutMethod == {CRYPTO_WALLET, WIRE_TRANSFER, CASH_PICKUP, MOBILE_MONEY}

\* what a caller may pass as `method`: a member of the enum or anything else
MethodInputs == PayoutMethod \cup {"unknown"}
AmountInputs == {100, 0, 0 - 50}
CurrencyInputs == {"USD"}
\* **kwargs: none given (both callers in the repository), or recipient data
NoKwargs == [k \in {} |-> ""]
KwargsInputs ==
    {NoKwargs,
     [wallet_address |-> "0xUSERWALLET", phone_number |-> "+254-711-111111",
      account_number |-> "ACC-1", routing_number |-> "RT-1",
      recipient_name |-> "Ada", recipient_phone |-> "+1-555-0199"]}
\* the random source: the smallest and the largest draw
Draws == {"min", "max"}

\* dict.get(key, default)
kwargs_get(kwargs, key, default) ==
    IF key \in DOMAIN kwargs THEN kwargs[key] ELSE default

\* random.randint(a, b), as decided by the draw
randint(a, b, r) == IF r = "min" THEN a ELSE b

\* random.randbytes(32).hex(): 64 hex digits
randbytes32_hex(r) ==
    IF r = "min"
    THEN "0000000000000000000000000000000000000000000000000000000000000000"
    ELSE "ffffffffffffffffffffffffffffffffffffffffffffffffffffffffffffffff"

\* f"{random.randint(1000000000, 9999999999)}": the draws exceed the
\* model checker's integers, so the draw is given in its decimal form
randint_mtcn(r) == IF r = "min" THEN "1000000000" ELSE "9999999999"

(***************************************************************************)
(* timedelta arithmetic.                                                   *)
(***************************************************************************)
\* (a - b).total_seconds()
total_seconds(a, b) == a - b

\* secs / unit < num / den, the float comparison `elapsed < threshold` with
\* elapsed = total_seconds / unit and threshold = num / den
ElapsedLess(secs, unit, num, den) == secs * den < num * unit

\* int(total_seconds / 60) for a non-negative elapsed time
int_minutes(secs) == secs \div 60

\* timedelta.seconds: the seconds field alone, without the days
timedelta_seconds(a, b) == (a - b) % 86400

\* round(total_seconds / 60): Python rounds a half to the even neighbour
round_minutes(secs) ==
    LET q == secs \div 60
        rem == secs % 60 IN
    IF rem > 30 \/ (rem = 30 /\ q % 2 = 1) THEN q + 1 ELSE q

(***************************************************************************)
(* CryptoWalletSimulator                                                   *)
(***************************************************************************)
avg_confirmation_time == 15

CryptoWalletSimulator_initiate_payout(amount, currency, wallet_address, r, t) ==
    [transaction_id |-> "0x" \o randbytes32_hex(r),
     method |-> CRYPTO_WALLET,
     amount |-> amount,
     currency |-> currency,
     status |-> "pending",
     initiated_at |-> t,
     completed_at |-> None,
     confirmation_code |-> None,
     recipient_address |-> Some(wallet_address),
     estimated_arrival |-> Some(t + avg_confirmation_time * 60)]

\* Variant: the status is advanced one step per call from the stored status
\* instead of being recomputed from the elapsed time.
CryptoWalletSimulator_check_status_stepwise(transaction, t) ==
    LET secs == total_seconds(t, transaction.initiated_at) IN
    IF transaction.status = "pending" /\ ~ElapsedLess(secs, 60, 2, 1)
    THEN [transaction EXCEPT
            !.status = "processing",
            !.confirmation_code =
                Some("Confirmations: " \o ToString(int_minutes(secs)) \o "/12")]
    ELSE IF transaction.status = "processing" /\ ~ElapsedLess(secs, 60, 10, 1)
    THEN [transaction EXCEPT
            !.status = "completed",
            !.completed_at = Some(t),
            !.confirmation_code = Some("12/12 Confirmations")]
    ELSE transaction

\* Variant: the confirmation count is round(elapsed) instead of int(elapsed).
CryptoWalletSimulator_check_status_round(transaction, t) ==
    LET secs == total_seconds(t, transaction.initiated_at) IN
    IF ElapsedLess(secs, 60, 2, 1)
    THEN [transaction EXCEPT !.status = "pending"]
    ELSE IF ElapsedLess(secs, 60, 10, 1)
    THEN [transaction EXCEPT
            !.status = "processing",
            !.confirmation_code =
                Some("Confirmations: " \o ToString(round_minutes(secs)) \o "/12")]
    ELSE [transaction EXCEPT
            !.status = "completed",
            !.completed_at = Some(t),
            !.confirmation_code = Some("12/12 Confirmations")]

CryptoWalletSimulator_check_status(transaction, t) ==
    LET secs == total_seconds(t, transaction.initiated_at) IN
    IF ElapsedLess(secs, 60, 2, 1)
    THEN [transaction EXCEPT !.status = "pending"]
    ELSE IF ElapsedLess(secs, 60, 10, 1)
    THEN [transaction EXCEPT
            !.status = "processing",
            !.confirmation_code =
                Some("Confirmations: " \o ToString(int_minutes(secs)) \o "/12")]
    ELSE [transaction EXCEPT
            !.status = "completed",
            !.completed_at = Some(t),
            !.confirmation_code = Some("12/12 Confirmations")]

(***************************************************************************)
(* WireTransferSimulator                                                   *)
(***************************************************************************)
processing_days == 2

WireTransferSimulator_initiate_payout(amount, currency, account_number, routing_number, r, t) ==
    LET ref_number == "WIRE" \o ToString(randint(100000, 999999, r)) IN
    [transaction_id |-> ref_number,
     method |-> WIRE_TRANSFER,
     amount |-> amount,
     currency |-> currency,
     status |-> "pending",
     initiated_at |-> t,
     completed_at |-> None,
     confirmation_code |-> Some(ref_number),
     recipient_address |-> None,
     estimated_arrival |-> Some(t + processing_days * 86400)]

\* Variant: elapsed time read from timedelta.seconds, which drops whole days.
WireTransferSimulator_check_status_seconds(transaction, t) ==
    LET secs == timedelta_seconds(t, transaction.initiated_at) IN
    IF ElapsedLess(secs, 3600, 1, 1)
    THEN [transaction EXCEPT !.status = "pending"]
    ELSE IF ElapsedLess(secs, 3600, 48, 1)
    THEN [transaction EXCEPT !.status = "processing"]
    ELSE [transaction EXCEPT
            !.status = "completed",
            !.completed_at = Some(t)]

\* Variant: the status is advanced one step per call from the stored status.
WireTransferSimulator_check_status_stepwise(transaction, t) ==
    LET secs == total_seconds(t, transaction.initiated_at) IN
    IF transaction.status = "pending" /\ ~ElapsedLess(secs, 3600, 1, 1)
    THEN [transaction EXCEPT !.status = "processing"]
    ELSE IF transaction.status = "processing" /\ ~ElapsedLess(secs, 3600, 48, 1)
    THEN [transaction EXCEPT
            !.status = "completed",
            !.completed_at = Some(t)]
    ELSE transaction

WireTransferSimulator_check_status(transaction, t) ==
    LET secs == total_seconds(t, transaction.initiated_at) IN
    IF ElapsedLess(secs, 3600, 1, 1)
    THEN [transaction EXCEPT !.status = "pending"]
    ELSE IF ElapsedLess(secs, 3600, 48, 1)
    THEN [transaction EXCEPT !.status = "processing"]
    ELSE [transaction EXCEPT
            !.status = "completed",
            !.completed_at = Some(t)]

(***************************************************************************)
(* CashPickupSimulator                                                     *)
(***************************************************************************)
avg_availability == 4

CashPickupSimulator_initiate_payout(amount, currency, recipient_name, recipient_phone, r, t) ==
    LET mtcn == randint_mtcn(r) IN
    [transaction_id |-> mtcn,
     method |-> CASH_PICKUP,
     amount |-> amount,
     currency |-> currency,
     status |-> "pending",
     initiated_at |-> t,
     completed_at |-> None,
     confirmation_code |-> Some("MTCN: " \o mtcn),
     recipient_address |-> None,
     estimated_arrival |-> Some(t + avg_availability * 3600)]

\* Variant: the thresholds compared with <= instead of <.
CashPickupSimulator_check_status_inclusive(transaction, t) ==
    LET secs == total_seconds(t, transaction.initiated_at) IN
    IF secs * 2 <= 3600
    THEN [transaction EXCEPT !.status = "pending"]
    ELSE IF secs <= 3 * 3600
    THEN [transaction EXCEPT !.status = "processing"]
    ELSE [transaction EXCEPT
            !.status = "completed",
            !.completed_at = Some(t)]

\* Variant: a pickup not collected within two days is marked failed.
CashPickupSimulator_check_status_expiring(transaction, t) ==
    LET secs == total_seconds(t, transaction.initiated_at) IN
    IF ElapsedLess(secs, 3600, 1, 2)
    THEN [transaction EXCEPT !.status = "pending"]
    ELSE IF ElapsedLess(secs, 3600, 3, 1)
    THEN [transaction EXCEPT !.status = "processing"]
    ELSE IF ElapsedLess(secs, 3600, 48, 1)
    THEN [transaction EXCEPT
            !.status = "completed",
            !.completed_at = Some(t)]
    ELSE [transaction EXCEPT !.status = "failed"]

CashPickupSimulator_check_status(transaction, t) ==
    LET secs == total_seconds(t, transaction.initiated_at) IN
    IF ElapsedLess(secs, 3600, 1, 2)
    THEN [transaction EXCEPT !.status = "pending"]
    ELSE IF ElapsedLess(secs, 3600, 3, 1)
    THEN [transaction EXCEPT !.status = "processing"]
    ELSE [transaction EXCEPT
            !.status = "completed",
            !.completed_at = Some(t)]

(***************************************************************************)
(* MobileMoneySimulator                                                    *)
(***************************************************************************)
avg_delivery == 30

MobileMoneySimulator_initiate_payout(amount, currency, phone_number, r, t) ==
    LET tx_id == "MM" \o ToString(randint(100000000, 999999999, r)) IN
    [transaction_id |-> tx_id,
     method |-> MOBILE_MONEY,
     amount |-> amount,
     currency |-> currency,
     status |-> "pending",
     initiated_at |-> t,
     completed_at |-> None,
     confirmation_code |-> Some(tx_id),
     recipient_address |-> Some(phone_number),
     estimated_arrival |-> Some(t + avg_delivery * 60)]

\* Variant: elapsed time read from timedelta.seconds, which drops whole days.
MobileMoneySimulator_check_status_seconds(transaction, t) ==
    LET secs == timedelta_seconds(t, transaction.initiated_at) IN
    IF ElapsedLess(secs, 60, 5, 1)
    THEN [transaction EXCEPT !.status = "pending"]
    ELSE IF ElapsedLess(secs, 60, 20, 1)
    THEN [transaction EXCEPT !.status = "processing"]
    ELSE [transaction EXCEPT
            !.status = "completed",
            !.completed_at = Some(t)]

\* Variant: completion also moves estimated_arrival to the time of the check.
MobileMoneySimulator_check_status_rearm(transaction, t) ==
    LET secs == total_seconds(t, transaction.initiated_at) IN
    IF ElapsedLess(secs, 60, 5, 1)
    THEN [transaction EXCEPT !.status = "pending"]
    ELSE IF ElapsedLess(secs, 60, 20, 1)
    THEN [transaction EXCEPT !.status = "processing"]
    ELSE [transaction EXCEPT
            !.status = "completed",
            !.completed_at = Some(t),
            !.estimated_arrival = Some(t)]

MobileMoneySimulator_check_status(transaction, t) ==
    LET secs == total_seconds(t, transaction.initiated_at) IN
    IF ElapsedLess(secs, 60, 5, 1)
    THEN [transaction EXCEPT !.status = "pending"]
    ELSE IF ElapsedLess(secs, 60, 20, 1)
    THEN [transaction EXCEPT !.status = "processing"]
    ELSE [transaction EXCEPT
            !.status = "completed",
            !.completed_at = Some(t)]

(***************************************************************************)
(* PayoutOrchestrator.  A call either returns a value or raises: the       *)
(* outcome is [raised |-> the exception's type or "", value |-> Optional]. *)
(***************************************************************************)
Returned(v) == [raised |-> "", value |-> Some(v)]
Raised(e) == [raised |-> e, value |-> None]

\* Variant: the last branch is a plain else, so any other method is paid out
\* as mobile money.
PayoutOrchestrator_initiate_payout_fallthrough(method, amount, currency, kwargs, r, t) ==
    IF method = CRYPTO_WALLET
    THEN Returned(CryptoWalletSimulator_initiate_payout(
            amount, currency,
            kwargs_get(kwargs, "wallet_address",
                       "0x742d35Cc6634C0532925a3b844Bc9e7595f0bEb"),
            r, t))
    ELSE IF method = WIRE_TRANSFER
    THEN Returned(WireTransferSimulator_initiate_payout(
            amount, currency,
            kwargs_get(kwargs, "account_number", "****1234"),
            kwargs_get(kwargs, "routing_number", "****5678"),
            r, t))
    ELSE IF method = CASH_PICKUP
    THEN Returned(CashPickupSimulator_initiate_payout(
            amount, currency,
            kwargs_get(kwargs, "recipient_name", "User"),
            kwargs_get(kwargs, "recipient_phone", "+1-555-0100"),
            r, t))
    ELSE Returned(MobileMoneySimulator_initiate_payout(
            amount, currency,
            kwargs_get(kwargs, "phone_number", "+254-700-000000"),
            r, t))

PayoutOrchestrator_initiate_payout(method, amount, currency, kwargs, r, t) ==
    IF method = CRYPTO_WALLET
    THEN Returned(CryptoWalletSimulator_initiate_payout(
            amount, currency,
            kwargs_get(kwargs, "wallet_address",
                       "0x742d35Cc6634C0532925a3b844Bc9e7595f0bEb"),
            r, t))
    ELSE IF method = WIRE_TRANSFER
    THEN Returned(WireTransferSimulator_initiate_payout(
            amount, currency,
            kwargs_get(kwargs, "account_number", "****1234"),
            kwargs_get(kwargs, "routing_number", "****5678"),
            r, t))
    ELSE IF method = CASH_PICKUP
    THEN Returned(CashPickupSimulator_initiate_payout(
            amount, currency,
            kwargs_get(kwargs, "recipient_name", "User"),
            kwargs_get(kwargs, "recipient_phone", "+1-555-0100"),
            r, t))
    ELSE IF method = MOBILE_MONEY
    THEN Returned(MobileMoneySimulator_initiate_payout(
            amount, currency,
            kwargs_get(kwargs, "phone_number", "+254-700-000000"),
            r, t))
    ELSE Raised("ValueError")

PayoutOrchestrator_check_status(transaction, t) ==
    IF transaction.method = CRYPTO_WALLET
    THEN CryptoWalletSimulator_check_status(transaction, t)
    ELSE IF transaction.method = WIRE_TRANSFER
    THEN WireTransferSimulator_check_status(transaction, t)
    ELSE IF transaction.method = CASH_PICKUP
    THEN CashPickupSimulator_check_status(transaction, t)
    ELSE IF transaction.method = MOBILE_MONEY
    THEN MobileMoneySimulator_check_status(transaction, t)
    ELSE transaction

(***************************************************************************)
(* The session of src/main.py around the orchestrator.                     *)
(***************************************************************************)
NoCall == [op |-> "none"]

\* The liquidity oracle, the risk monitor and the chaos simulator are
\* separate objects of the session: the payout operations neither read nor
\* write them.
oracle_vars == <<oracle_call>>
monitor_vars == <<active_alerts, current_location, monitor_call>>
chaos_vars == <<simulator, chaos_call>>
payout_vars == <<now, payout_transaction, issued, polls, last_call>>

\* latitude and longitude are in tenths of a degree, the source's values
\* rounded
Location(city, country, latitude, longitude) ==
    [city |-> city, country |-> country,
     latitude |-> latitude, longitude |-> longitude]

\* current_location of create_sample_profile()
kyiv == Location("Kyiv", "Ukraine", 505, 305)

OracleIdle == oracle_call = NoCall
MonitorIdle ==
    /\ active_alerts = <<>>
    /\ current_location = kyiv
    /\ monitor_call = NoCall

\* ChaosSimulator(): the default starting level and no alerts
ChaosIdle ==
    /\ simulator = [current_level |-> 2, alerts |-> <<>>]
    /\ chaos_call = NoCall

Init ==
    /\ now = 0
    /\ payout_transaction = None
    /\ issued = None
    /\ polls = <<>>
    /\ last_call = NoCall
    /\ OracleIdle
    /\ MonitorIdle
    /\ ChaosIdle

\* The wall clock moves on between two calls.  It is read at non-decreasing
\* values: a clock set back during a session is not modelled.
Advance ==
    /\ \E t \in Instants : t > now /\ now' = t
    /\ UNCHANGED <<payout_transaction, issued, polls, last_call>>

\* "ACTIVATE EMERGENCY PROTOCOL": shown while the session holds no
\* transaction; the transaction returned is kept in the session.  A raised
\* exception leaves the session as it was.
Initiate ==
    /\ payout_transaction = None
    /\ now <= LastStart
    /\ \E method \in MethodInputs, amount \in AmountInputs,
          currency \in CurrencyInputs, kwargs \in KwargsInputs, r \in Draws :
          LET out == PayoutOrchestrator_initiate_payout(
                         method, amount, currency, kwargs, r, now) IN
          /\ last_call' = [op |-> "initiate_payout", method |-> method,
                           amount |-> amount, raised |-> out.raised,
                           value |-> out.value]
          /\ payout_transaction' = out.value
          /\ issued' = out.value
    /\ polls' = <<>>
    /\ UNCHANGED now

\* What a caller sees of one check_status call.
Observation(transaction, t) ==
    [at |-> t,
     status |-> transaction.status,
     completed_at |-> transaction.completed_at,
     confirmation_code |-> transaction.confirmation_code]

\* The Emergency tab's status poll: the transaction is refreshed in place.
CheckStatus ==
    /\ payout_transaction # None
    /\ Len(polls) < MaxPolls
    /\ LET transaction ==
               PayoutOrchestrator_check_status(Get(payout_transaction), now) IN
       /\ payout_transaction' = Some(transaction)
       /\ polls' = Append(polls, Observation(transaction, now))
    /\ last_call' = [op |-> "check_status"]
    /\ UNCHANGED <<now, issued>>

\* "Reset Demo": the transaction is discarded.
Reset ==
    /\ payout_transaction # None
    /\ payout_transaction' = None
    /\ issued' = None
    /\ polls' = <<>>
    /\ last_call' = NoCall
    /\ UNCHANGED now

Next == Advance \/ Initiate \/ CheckStatus \/ Reset

Spec ==
    /\ Init
    /\ [][Next /\ UNCHANGED <<oracle_vars, monitor_vars, chaos_vars>>]_vars

\* The same status poll with no record kept of what it returned, so that a
\* caller can go on polling for as long as the session lasts.
Poll ==
    /\ payout_transaction # None
    /\ payout_transaction' =
           Some(PayoutOrchestrator_check_status(Get(payout_transaction), now))
    /\ last_call' = [op |-> "check_status"]
    /\ UNCHANGED <<now, issued, polls>>

NextLive == Advance \/ Initiate \/ Poll

\* A session in which the clock keeps advancing and the caller keeps polling
\* the transaction it holds.
LiveSpec ==
    /\ Init
    /\ [][NextLive /\ UNCHANGED <<oracle_vars, monitor_vars, chaos_vars>>]_vars
    /\ WF_vars(Advance /\ UNCHANGED <<oracle_vars, monitor_vars, chaos_vars>>)
    /\ WF_vars(Poll /\ UNCHANGED <<oracle_vars, monitor_vars, chaos_vars>>)

(***************************************************************************)
(* Properties.                                                             *)
(***************************************************************************)
Held == payout_transaction # None
Tx == Get(payout_transaction)
PollIndex == 1..Len(polls)
\* the elapsed time, in seconds, at which the i-th recorded poll was made
ElapsedAt(i) == polls[i].at - Tx.initiated_at

Rank(status) ==
    CASE status = "pending" -> 0
      [] status = "processing" -> 1
      [] status = "completed" -> 2
      [] OTHER -> 3

\* s contains sub
Contains(s, sub) ==
    \E i \in 1..(Len(s) - Len(sub) + 1) : SubSeq(s, i, i + Len(sub) - 1) = sub

\* C1: over the polls of one transaction, made at non-decreasing clock
\* readings, a later poll never returns a status earlier in the order
\* pending < processing < completed than an earlier poll did, for each of
\* the four methods.
C1_StatusNeverMovesBackward ==
    Held =>
        \A i, j \in PollIndex :
            (i < j /\ polls[i].at <= polls[j].at)
                => Rank(polls[i].status) <= Rank(polls[j].status)

\* Every method is polled from pending through processing to completed.
C1_Witness ==
    /\ Held
    /\ Len(polls) >= 3
    /\ polls[1].status = "pending"
    /\ polls[2].status = "processing"
    /\ polls[3].status = "completed"
    /\ Tx.method = WIRE_TRANSFER

\* The thresholds as the claim gives them, in seconds.
C2_FirstThreshold(method) ==
    CASE method = CRYPTO_WALLET -> 2 * 60
      [] method = WIRE_TRANSFER -> 1 * 3600
      [] method = CASH_PICKUP -> 3600 \div 2
      [] method = MOBILE_MONEY -> 5 * 60

C2_SecondThreshold(method) ==
    CASE method = CRYPTO_WALLET -> 10 * 60
      [] method = WIRE_TRANSFER -> 48 * 3600
      [] method = CASH_PICKUP -> 3 * 3600
      [] method = MOBILE_MONEY -> 20 * 60

C2_Expected(method, secs) ==
    IF secs < C2_FirstThreshold(method) THEN "pending"
    ELSE IF secs < C2_SecondThreshold(method) THEN "processing"
    ELSE "completed"

\* C2: every check_status returns pending below the method's first threshold,
\* processing from the first threshold up to the second, completed from the
\* second on (crypto 2/10 min, wire 1/48 h, cash 0.5/3 h, mobile 5/20 min);
\* a check made at the instant of initiate_payout returns pending.
C2_StatusByThresholds ==
    Held =>
        /\ \A i \in PollIndex :
               polls[i].status = C2_Expected(Tx.method, ElapsedAt(i))
        /\ \A i \in PollIndex :
               ElapsedAt(i) = 0 => polls[i].status = "pending"

\* A cash pickup polled at the instant of initiation and exactly at both of
\* its thresholds.
C2_Witness ==
    /\ Held
    /\ Tx.method = CASH_PICKUP
    /\ Len(polls) >= 3
    /\ ElapsedAt(1) = 0 /\ polls[1].status = "pending"
    /\ ElapsedAt(2) = 1800 /\ polls[2].status = "processing"
    /\ ElapsedAt(3) = 10800 /\ polls[3].status = "completed"

\* the first recorded poll that returned completed
FirstCompleted ==
    CHOOSE i \in PollIndex :
        /\ polls[i].status = "completed"
        /\ \A j \in PollIndex : j < i => polls[j].status # "completed"

\* C3: completed_at of a completed transaction is the clock reading of the
\* first check_status that returned completed, after any sequence of polls.
C3_CompletedAtFirstObservation ==
    (Held /\ \E i \in PollIndex : polls[i].status = "completed")
        => Tx.completed_at = Some(polls[FirstCompleted].at)

\* C4: a check_status repeated with no clock advance returns the same status
\* and the same confirmation_code as the call before it.
C4_Idempotent ==
    Held =>
        \A i \in PollIndex :
            (i > 1 /\ polls[i].at = polls[i - 1].at)
                => /\ polls[i].status = polls[i - 1].status
                   /\ polls[i].confirmation_code = polls[i - 1].confirmation_code

\* A transaction first polled when it is already past both thresholds and
\* polled again at the same instant.
C4_Witness ==
    /\ Held
    /\ Len(polls) >= 2
    /\ polls[1].at = polls[2].at
    /\ polls[1].status = "completed"
    /\ Tx.method \in {CRYPTO_WALLET, WIRE_TRANSFER}

\* C5: the status a poll returns depends on the method and on the time since
\* initiated_at alone.  The latest poll, made after whatever polls came
\* before it, returns the status that a transaction of the same method and
\* initiated_at returns at that instant when it was never polled before, and
\* when it was polled once before at any earlier instant.  (Every recorded
\* poll was the latest one in the state it was made in.)
C5_StatusIgnoresHistory ==
    (Held /\ polls # <<>>) =>
        LET twin == Get(issued)
            last == polls[Len(polls)]
            t == last.at IN
        /\ PayoutOrchestrator_check_status(twin, t).status = last.status
        /\ \A s \in Instants :
               (twin.initiated_at <= s /\ s <= t) =>
                   PayoutOrchestrator_check_status(
                       PayoutOrchestrator_check_status(twin, s), t).status
                   = last.status

\* A transaction polled while pending, polled twice more once it is past both
\* thresholds.
C5_Witness ==
    /\ Held
    /\ Len(polls) >= 3
    /\ polls[1].status = "pending"
    /\ polls[2].status = "completed"
    /\ polls[3].at = polls[2].at

\* C6: check_status leaves transaction_id, method, amount, currency,
\* initiated_at, recipient_address and estimated_arrival as initiate_payout
\* set them, across any sequence of polls.
C6_FrameOfCheckStatus ==
    Held =>
        LET was == Get(issued) IN
        /\ Tx.transaction_id = was.transaction_id
        /\ Tx.method = was.method
        /\ Tx.amount = was.amount
        /\ Tx.currency = was.currency
        /\ Tx.initiated_at = was.initiated_at
        /\ Tx.recipient_address = was.recipient_address
        /\ Tx.estimated_arrival = was.estimated_arrival

\* A transaction polled to completion, whose other three fields did change.
C6_Witness ==
    /\ Held
    /\ Len(polls) >= 2
    /\ Tx.status = "completed"
    /\ Tx.completed_at # Get(issued).completed_at
    /\ Tx.confirmation_code # Get(issued).confirmation_code
    /\ Tx.recipient_address # None

\* C7: while the clock keeps advancing and the caller keeps polling, a
\* transaction that was created is eventually completed, and a completed
\* transaction is completed after every later step.
C7_EventuallyCompleted ==
    /\ Held ~> (Held /\ Tx.status = "completed")
    /\ [][(Held /\ Tx.status = "completed")
            => (payout_transaction' # None
                /\ Get(payout_transaction').status = "completed")]_vars

\* A wire transfer, the slowest method, polled to completion.
C7_Witness ==
    /\ Held
    /\ Tx.method = WIRE_TRANSFER
    /\ Tx.status = "completed"
    /\ Tx.completed_at = Some(now)

\* C8: a crypto_wallet poll returns no confirmation_code while pending, a
\* code containing "<whole elapsed minutes>/12" while processing, and
\* "12/12 Confirmations" with completed_at set once completed; it is pending
\* at 1 minute, processing with "5/12" at 5 minutes, completed at 11 minutes.
C8_CryptoConfirmations ==
    (Held /\ Tx.method = CRYPTO_WALLET) =>
        \A i \in PollIndex :
            LET p == polls[i]
                secs == ElapsedAt(i) IN
            /\ p.status = "pending" => p.confirmation_code = None
            /\ p.status = "processing" =>
                   /\ p.confirmation_code # None
                   /\ Contains(Get(p.confirmation_code),
                               " " \o ToString(secs \div 60) \o "/12")
            /\ p.status = "completed" =>
                   /\ p.confirmation_code = Some("12/12 Confirmations")
                   /\ p.completed_at # None
            /\ secs = 60 => p.status = "pending"
            /\ secs = 300 =>
                   /\ p.status = "processing"
                   /\ Contains(Get(p.confirmation_code), "5/12")
            /\ secs = 660 => p.status = "completed"

\* A crypto payout polled at 1, 5 and 11 minutes.
C8_Witness ==
    /\ Held
    /\ Tx.method = CRYPTO_WALLET
    /\ Len(polls) >= 3
    /\ ElapsedAt(1) = 60 /\ polls[1].confirmation_code = None
    /\ ElapsedAt(2) = 300 /\ polls[2].status = "processing"
    /\ ElapsedAt(3) = 660 /\ polls[3].completed_at = Some(now)

\* C9: initiate_payout called with a method that is none of the four payout
\* methods raises an error and returns no transaction.
C9_UnknownMethodRaises ==
    (last_call.op = "initiate_payout" /\ last_call.method \notin PayoutMethod)
        => /\ last_call.raised # ""
           /\ last_call.value = None
           /\ payout_transaction = None

\* initiate_payout was called with method "unknown".
C9_Witness ==
    /\ last_call.op = "initiate_payout"
    /\ last_call.method = "unknown"
    /\ last_call.amount = 100

\* C10: initiate_payout with a non-positive amount raises an error and
\* creates no transaction, whatever the payout method.
C10_NonPositiveAmountRaises ==
    (last_call.op = "initiate_payout" /\ last_call.amount <= 0)
        => /\ last_call.raised # ""
           /\ last_call.value = None

(***************************************************************************)
(* check_status on a transaction that did not come from initiate_payout:   *)
(* one rebuilt by a caller, for instance from the audit trail's JSON, in   *)
(* which the method is the enum's value and initiated_at may be missing.   *)
(***************************************************************************)
\* the transaction without its initiated_at
without_initiated_at(transaction) ==
    [f \in DOMAIN transaction \ {"initiated_at"} |-> transaction[f]]

\* the transaction with another method
with_method(transaction, method) == [transaction EXCEPT !.method = method]

IssuedTransactions ==
    {PayoutOrchestrator_initiate_payout(m, a, "USD", NoKwargs, r, 0).value[1] :
        m \in PayoutMethod, a \in AmountInputs, r \in Draws}

\* What a caller can hand to check_status: a transaction as issued, one
\* whose method is no member of PayoutMethod, and either without its
\* initiated_at.
RebuiltTransactions ==
    LET relabelled == IssuedTransactions
                        \cup {with_method(x, "unknown") : x \in IssuedTransactions}
    IN relabelled \cup {without_initiated_at(x) : x \in relabelled}

\* The call as its caller sees it.  Each simulator starts with
\* datetime.now() - transaction.initiated_at, which raises TypeError when
\* initiated_at is None; a method that is none of the four reaches no
\* simulator and the transaction is returned as it came.
PayoutOrchestrator_check_status_call(transaction, t) ==
    IF transaction.method \in PayoutMethod
           /\ "initiated_at" \notin DOMAIN transaction
    THEN Raised("TypeError")
    ELSE Returned(PayoutOrchestrator_check_status(transaction, t))

RebuiltInit ==
    /\ now = 0
    /\ payout_transaction \in {Some(x) : x \in RebuiltTransactions}
    /\ issued = None
    /\ polls = <<>>
    /\ last_call = NoCall
    /\ OracleIdle
    /\ MonitorIdle
    /\ ChaosIdle

\* check_status on the transaction held; an exception leaves it as it was.
CheckRebuilt ==
    /\ payout_transaction # None
    /\ LET out == PayoutOrchestrator_check_status_call(
                      Get(payout_transaction), now) IN
       /\ last_call' = [op |-> "check_status",
                        transaction |-> Get(payout_transaction),
                        raised |-> out.raised, value |-> out.value]
       /\ payout_transaction' =
              IF out.raised = "" THEN out.value ELSE payout_transaction
    /\ UNCHANGED <<now, issued, polls>>

RebuiltNext == Advance \/ CheckRebuilt

RebuiltSpec ==
    /\ RebuiltInit
    /\ [][RebuiltNext /\ UNCHANGED <<oracle_vars, monitor_vars, chaos_vars>>]_vars

\* C11: check_status called on a malformed transaction, one with no
\* initiated_at, fails with an error and returns no transaction.
C11_MalformedTransactionRaises ==
    (last_call.op = "check_status"
        /\ "initiated_at" \notin DOMAIN last_call.transaction)
        => /\ last_call.raised # ""
           /\ last_call.value = None

(***************************************************************************)
(* src/core/liquidity_oracle.py: the network simulator and the oracle.     *)
(* A float of the source is an integer here: fee_multiplier is the whole   *)
(* number it is (1.0, 2.0, 3.0), success_rate and the random draw are in   *)
(* hundredths, the weights are in hundredths.                              *)
(***************************************************************************)
ONLINE == "ONLINE"
CONGESTED == "CONGESTED"
OFFLINE == "OFFLINE"
RESTRICTED == "RESTRICTED"

\* random.random() in hundredths: each threshold of the simulator (0.3, 0.4,
\* 0.7, 0.9) and a value on either side of them
RngDraws == {0, 30, 40, 50, 70, 90}

RiskLevelInputs == {3, 4, 5, 7, 8, 9}

NetworkCondition(status, latency_ms, fee_multiplier, success_rate, message) ==
    [status |-> status, latency_ms |-> latency_ms,
     fee_multiplier |-> fee_multiplier, success_rate |-> success_rate,
     message |-> message]

\* the simulator with the moderate-risk branch entered from risk level 4
NetworkStatusSimulator_get_network_status_from4(method, risk_level, rng) ==
    IF risk_level >= 8
    THEN IF method \in {WIRE_TRANSFER, MOBILE_MONEY}
         THEN IF rng < 70
              THEN NetworkCondition(OFFLINE, 100, 1, 0,
                                    "Banks closed due to civil unrest")
              ELSE IF rng < 90
              THEN NetworkCondition(RESTRICTED, 100, 2, 99,
                                    "Capital controls active - delays expected")
              ELSE NetworkCondition(ONLINE, 100, 1, 99, "Network optimal")
         ELSE IF method = CRYPTO_WALLET /\ rng < 30
         THEN NetworkCondition(CONGESTED, 5000, 3, 99,
                               "Network congested - high gas fees")
         ELSE NetworkCondition(ONLINE, 100, 1, 99, "Network optimal")
    ELSE IF risk_level >= 4 /\ method = CASH_PICKUP /\ rng < 40
    THEN NetworkCondition(RESTRICTED, 100, 1, 99, "Limited agent availability")
    ELSE NetworkCondition(ONLINE, 100, 1, 99, "Network optimal")

\* the simulator with the crisis branch entered from risk level 7, where the
\* crisis weights start
NetworkStatusSimulator_get_network_status_from7(method, risk_level, rng) ==
    IF risk_level >= 7
    THEN IF method \in {WIRE_TRANSFER, MOBILE_MONEY}
         THEN IF rng < 70
              THEN NetworkCondition(OFFLINE, 100, 1, 0,
                                    "Banks closed due to civil unrest")
              ELSE IF rng < 90
              THEN NetworkCondition(RESTRICTED, 100, 2, 99,
                                    "Capital controls active - delays expected")
              ELSE NetworkCondition(ONLINE, 100, 1, 99, "Network optimal")
         ELSE IF method = CRYPTO_WALLET /\ rng < 30
         THEN NetworkCondition(CONGESTED, 5000, 3, 99,
                               "Network congested - high gas fees")
         ELSE NetworkCondition(ONLINE, 100, 1, 99, "Network optimal")
    ELSE IF risk_level >= 5 /\ method = CASH_PICKUP /\ rng < 40
    THEN NetworkCondition(RESTRICTED, 100, 1, 99, "Limited agent availability")
    ELSE NetworkCondition(ONLINE, 100, 1, 99, "Network optimal")

\* the simulator with both bank thresholds inclusive
NetworkStatusSimulator_get_network_status_inclusive(method, risk_level, rng) ==
    IF risk_level >= 8
    THEN IF method \in {WIRE_TRANSFER, MOBILE_MONEY}
         THEN IF rng <= 70
              THEN NetworkCondition(OFFLINE, 100, 1, 0,
                                    "Banks closed due to civil unrest")
              ELSE IF rng <= 90
              THEN NetworkCondition(RESTRICTED, 100, 2, 99,
                                    "Capital controls active - delays expected")
              ELSE NetworkCondition(ONLINE, 100, 1, 99, "Network optimal")
         ELSE IF method = CRYPTO_WALLET /\ rng < 30
         THEN NetworkCondition(CONGESTED, 5000, 3, 99,
                               "Network congested - high gas fees")
         ELSE NetworkCondition(ONLINE, 100, 1, 99, "Network optimal")
    ELSE IF risk_level >= 5 /\ method = CASH_PICKUP /\ rng < 40
    THEN NetworkCondition(RESTRICTED, 100, 1, 99, "Limited agent availability")
    ELSE NetworkCondition(ONLINE, 100, 1, 99, "Network optimal")

\* rng is the value random.random() returns in this call; the location is
\* not read.
NetworkStatusSimulator_get_network_status(method, risk_level, rng) ==
    IF risk_level >= 8
    THEN IF method \in {WIRE_TRANSFER, MOBILE_MONEY}
         THEN IF rng < 70
              THEN NetworkCondition(OFFLINE, 100, 1, 0,
                                    "Banks closed due to civil unrest")
              ELSE IF rng < 90
              THEN NetworkCondition(RESTRICTED, 100, 2, 99,
                                    "Capital controls active - delays expected")
              ELSE NetworkCondition(ONLINE, 100, 1, 99, "Network optimal")
         ELSE IF method = CRYPTO_WALLET /\ rng < 30
         THEN NetworkCondition(CONGESTED, 5000, 3, 99,
                               "Network congested - high gas fees")
         ELSE NetworkCondition(ONLINE, 100, 1, 99, "Network optimal")
    ELSE IF risk_level >= 5 /\ method = CASH_PICKUP /\ rng < 40
    THEN NetworkCondition(RESTRICTED, 100, 1, 99, "Limited agent availability")
    ELSE NetworkCondition(ONLINE, 100, 1, 99, "Network optimal")

\* the traits with mobile money at speed 10
METHOD_Traits_get_fast_mobile(method) ==
    CASE method = CRYPTO_WALLET -> [speed |-> 9, reliability |-> 8, cost |-> 7]
      [] method = WIRE_TRANSFER -> [speed |-> 3, reliability |-> 9, cost |-> 5]
      [] method = CASH_PICKUP -> [speed |-> 7, reliability |-> 6, cost |-> 4]
      [] method = MOBILE_MONEY -> [speed |-> 10, reliability |-> 9, cost |-> 9]
      [] OTHER -> [speed |-> 5, reliability |-> 5, cost |-> 5]

\* METHOD_Traits.get(method, {"speed": 5, "reliability": 5, "cost": 5})
METHOD_Traits_get(method) ==
    CASE method = CRYPTO_WALLET -> [speed |-> 9, reliability |-> 8, cost |-> 7]
      [] method = WIRE_TRANSFER -> [speed |-> 3, reliability |-> 9, cost |-> 5]
      [] method = CASH_PICKUP -> [speed |-> 7, reliability |-> 6, cost |-> 4]
      [] method = MOBILE_MONEY -> [speed |-> 8, reliability |-> 9, cost |-> 9]
      [] OTHER -> [speed |-> 5, reliability |-> 5, cost |-> 5]

weights(risk_level) ==
    IF risk_level >= 7
    THEN [speed |-> 50, reliability |-> 40, cost |-> 10]
    ELSE [speed |-> 30, reliability |-> 30, cost |-> 40]

\* the score rounded to the nearest integer instead of cut
match_score_rounded(method, net_cond, risk_level) ==
    LET traits == METHOD_Traits_get(method)
        w == weights(risk_level)
        adj_speed2 == IF net_cond.status = CONGESTED
                      THEN traits.speed ELSE 2 * traits.speed
        sum == adj_speed2 * w.speed + 2 * traits.reliability * w.reliability
                   + 2 * traits.cost * w.cost
        num == IF net_cond.status = RESTRICTED THEN 7 * sum ELSE sum
        den == IF net_cond.status = RESTRICTED THEN 200 ELSE 20
    IN  IF num >= 100 * den THEN 100 ELSE IF num <= 0 THEN 0
        ELSE (2 * num + den) \div (2 * den)

\* Lines 167-188.  raw_score is kept as the fraction num / den: the speed is
\* counted in halves (a congested network halves it), the weights in
\* hundredths, and the penalty of a restricted network is 7 / 10.  The
\* source computes in binary floating point; for every entry of METHOD_Traits
\* and the default, either weighting and every status, int() of the float
\* equals the floor of the exact fraction.
match_score(method, net_cond, risk_level) ==
    LET traits == METHOD_Traits_get(method)
        w == weights(risk_level)
        adj_speed2 == IF net_cond.status = CONGESTED
                      THEN traits.speed ELSE 2 * traits.speed
        sum == adj_speed2 * w.speed + 2 * traits.reliability * w.reliability
                   + 2 * traits.cost * w.cost
        num == IF net_cond.status = RESTRICTED THEN 7 * sum ELSE sum
        den == IF net_cond.status = RESTRICTED THEN 200 ELSE 20
    IN  IF num >= 100 * den THEN 100 ELSE IF num <= 0 THEN 0 ELSE num \div den

\* f"${5 * fee_multiplier:.2f}" for a whole fee_multiplier
estimated_fee(fee_multiplier) == "$" \o ToString(5 * fee_multiplier) \o ".00"

\* One turn of the loop over available_methods (lines 147-224): the
\* recommendation appended for the method.  The badges are written without
\* the pictograph the source puts before each.
PayoutRecommendation(method, risk_level, rng) ==
    LET net_cond == NetworkStatusSimulator_get_network_status(
                        method, risk_level, rng)
        score == match_score(method, net_cond, risk_level)
    IN  IF net_cond.status = OFFLINE
        THEN [method |-> method, match_score |-> 0,
              network_condition |-> net_cond,
              estimated_time |-> "N/A", estimated_fee |-> "N/A",
              badges |-> <<"UNAVAILABLE">>,
              reason |-> "Unavailable: " \o net_cond.message]
        ELSE [method |-> method, match_score |-> score,
              network_condition |-> net_cond,
              estimated_time |->
                  CASE method = CRYPTO_WALLET ->
                           IF net_cond.status = ONLINE
                           THEN "~10 mins" ELSE "> 1 hour"
                    [] method = WIRE_TRANSFER -> "1-3 days"
                    [] method = CASH_PICKUP -> "2-4 hours"
                    [] method = MOBILE_MONEY -> "30 mins"
                    [] OTHER -> "Unknown",
              estimated_fee |-> estimated_fee(net_cond.fee_multiplier),
              badges |->
                  (IF net_cond.status = ONLINE /\ method = CRYPTO_WALLET
                   THEN <<"Instant">> ELSE <<>>)
                  \o (IF net_cond.status = ONLINE /\ method = MOBILE_MONEY
                      THEN <<"Low Fee">> ELSE <<>>)
                  \o (IF score > 90 THEN <<"Recommended">> ELSE <<>>),
              reason |-> net_cond.message]

\* a sort by match_score ascending, then reversed
RECURSIVE sort_ascending_reversed(_)
sort_ascending_reversed(recommendations) ==
    IF recommendations = <<>> THEN <<>>
    ELSE LET n == Len(recommendations)
             x == recommendations[n]
             rest == sort_ascending_reversed(SubSeq(recommendations, 1, n - 1))
             before == SelectSeq(rest, LAMBDA y : y.match_score > x.match_score)
             after == SelectSeq(rest, LAMBDA y : y.match_score <= x.match_score)
         IN  before \o <<x>> \o after

\* recommendations.sort(key=lambda x: x.match_score, reverse=True): the sort
\* is stable, reversed or not, so the last element goes behind every element
\* before it whose score is at least its own.
RECURSIVE sort_match_score_reverse(_)
sort_match_score_reverse(recommendations) ==
    IF recommendations = <<>> THEN <<>>
    ELSE LET n == Len(recommendations)
             x == recommendations[n]
             rest == sort_match_score_reverse(SubSeq(recommendations, 1, n - 1))
             before == SelectSeq(rest, LAMBDA y : y.match_score >= x.match_score)
             after == SelectSeq(rest, LAMBDA y : y.match_score < x.match_score)
         IN  before \o <<x>> \o after

\* get_recommendations with the best-match badge given to the first
\* recommendation whatever its score
LiquidityOracle_get_recommendations_unguarded(user_profile, risk_level, draws) ==
    LET available_methods ==
            IF user_profile.exit_fund # None
            THEN Get(user_profile.exit_fund).payout_methods
            ELSE <<CRYPTO_WALLET, WIRE_TRANSFER, CASH_PICKUP, MOBILE_MONEY>>
        recommendations == sort_match_score_reverse(
            [i \in 1..Len(available_methods) |->
                PayoutRecommendation(available_methods[i], risk_level, draws[i])])
    IN  IF recommendations # <<>>
        THEN [recommendations EXCEPT ![1].badges = Append(@, "Best Match")]
        ELSE recommendations

\* get_recommendations with the best-match badge given before the sort, to
\* the first recommendation built
LiquidityOracle_get_recommendations_badge_first(user_profile, risk_level, draws) ==
    LET available_methods ==
            IF user_profile.exit_fund # None
            THEN Get(user_profile.exit_fund).payout_methods
            ELSE <<CRYPTO_WALLET, WIRE_TRANSFER, CASH_PICKUP, MOBILE_MONEY>>
        built == [i \in 1..Len(available_methods) |->
                    PayoutRecommendation(available_methods[i], risk_level, draws[i])]
    IN  sort_match_score_reverse(
            IF built # <<>> /\ built[1].match_score > 0
            THEN [built EXCEPT ![1].badges = Append(@, "Best Match")]
            ELSE built)

\* Lines 124-233.  draws[i] is what random.random() returns in the i-th
\* turn of the loop.
LiquidityOracle_get_recommendations(user_profile, risk_level, draws) ==
    LET available_methods ==
            IF user_profile.exit_fund # None
            THEN Get(user_profile.exit_fund).payout_methods
            ELSE <<CRYPTO_WALLET, WIRE_TRANSFER, CASH_PICKUP, MOBILE_MONEY>>
        recommendations == sort_match_score_reverse(
            [i \in 1..Len(available_methods) |->
                PayoutRecommendation(available_methods[i], risk_level, draws[i])])
    IN  IF recommendations # <<>> /\ recommendations[1].match_score > 0
        THEN [recommendations EXCEPT ![1].badges = Append(@, "Best Match")]
        ELSE recommendations

\* exit_fund.payout_methods: the methods the user enabled, each once, in the
\* order the user gave them; possibly none
MaxMethods == 4
PayoutMethodLists ==
    UNION {{l \in [1..n -> PayoutMethod] :
               \A i, j \in 1..n : i # j => l[i] # l[j]} : n \in 0..MaxMethods}

UserProfileInputs ==
    {[exit_fund |-> None]}
        \cup {[exit_fund |-> Some([payout_methods |-> l])] : l \in PayoutMethodLists}

\* One call of get_recommendations; the function has no raise statement and
\* calls nothing that raises.  The oracle keeps nothing from one call to the
\* next, so one call is followed from the idle state.
GetRecommendations ==
    /\ oracle_call = NoCall
    /\ \E user_profile \in UserProfileInputs, risk_level \in RiskLevelInputs :
          LET n == IF user_profile.exit_fund = None THEN 4
                   ELSE Len(Get(user_profile.exit_fund).payout_methods) IN
          \E draws \in [1..n -> RngDraws] :
              oracle_call' =
                  [op |-> "get_recommendations",
                   user_profile |-> user_profile,
                   risk_level |-> risk_level,
                   draws |-> draws,
                   raised |-> "",
                   value |-> Some(LiquidityOracle_get_recommendations(
                                      user_profile, risk_level, draws))]
    /\ UNCHANGED <<payout_vars, monitor_vars, chaos_vars>>

OracleNext == GetRecommendations

OracleSpec == Init /\ [][OracleNext]_vars

(***************************************************************************)
(* Properties of the liquidity oracle.                                     *)
(***************************************************************************)
Recommended == oracle_call.op = "get_recommendations"
Recommendations == Get(oracle_call.value)
AvailableMethods ==
    IF oracle_call.user_profile.exit_fund # None
    THEN Get(oracle_call.user_profile.exit_fund).payout_methods
    ELSE <<CRYPTO_WALLET, WIRE_TRANSFER, CASH_PICKUP, MOBILE_MONEY>>
\* the place of a method in the list the call was given
MethodIndex(method) ==
    CHOOSE i \in 1..Len(AvailableMethods) : AvailableMethods[i] = method
\* the recommendation returned for a method
RecommendationFor(method) ==
    Recommendations[CHOOSE k \in 1..Len(Recommendations) :
                        Recommendations[k].method = method]

\* C12: every recommendation that get_recommendations returns with an
\* OFFLINE network condition has match_score 0 and the badges
\* ["UNAVAILABLE"] and nothing else, the sort and the best-match badge
\* included.
C12_OfflineScoresZero ==
    Recommended =>
        \A k \in 1..Len(Recommendations) :
            Recommendations[k].network_condition.status = OFFLINE
                => /\ Recommendations[k].match_score = 0
                   /\ Recommendations[k].badges = <<"UNAVAILABLE">>

\* Every method of the call is offline, so an offline recommendation is the
\* first of the result, where the best-match badge is decided.
C12_Witness ==
    /\ Recommended
    /\ Len(Recommendations) = 2
    /\ \A k \in 1..2 : Recommendations[k].network_condition.status = OFFLINE

\* C13: get_recommendations returns one recommendation for each available
\* method and no other, in descending order of match_score, and two
\* recommendations of equal score stand in the order their methods had in
\* the list given.
C13_OnePerMethodSortedStable ==
    Recommended =>
        /\ Len(Recommendations) = Len(AvailableMethods)
        /\ \A i \in 1..Len(AvailableMethods) :
               Cardinality({k \in 1..Len(Recommendations) :
                   Recommendations[k].method = AvailableMethods[i]}) = 1
        /\ \A j, k \in 1..Len(Recommendations) :
               j < k =>
                   \/ Recommendations[j].match_score > Recommendations[k].match_score
                   \/ /\ Recommendations[j].match_score = Recommendations[k].match_score
                      /\ MethodIndex(Recommendations[j].method)
                             < MethodIndex(Recommendations[k].method)

\* Two methods tie at score 0 around a method that scores higher and stood
\* between them.
C13_Witness ==
    /\ Recommended
    /\ AvailableMethods = <<MOBILE_MONEY, CRYPTO_WALLET, WIRE_TRANSFER>>
    /\ Recommendations[1].method = CRYPTO_WALLET
    /\ Recommendations[2].method = MOBILE_MONEY
    /\ Recommendations[2].match_score = Recommendations[3].match_score

\* C14: get_recommendations given an empty list of payout methods raises an
\* invalid-input error and returns no result.
C14_EmptyMethodListRaises ==
    (Recommended /\ AvailableMethods = <<>>)
        => /\ oracle_call.raised # ""
           /\ oracle_call.value = None

ScenarioB == <<CRYPTO_WALLET, MOBILE_MONEY, WIRE_TRANSFER, CASH_PICKUP>>

\* C15: for a risk level under 5 every recommendation carries the baseline
\* network condition (ONLINE, latency 100, fee multiplier 1.0, success rate
\* 0.99) whatever was drawn, and the result is the one any other draw gives;
\* for the methods [crypto_wallet, mobile_money, wire_transfer, cash_pickup]
\* crypto_wallet scores 79, mobile_money scores 87 and mobile_money is first.
C15_LowRiskDeterministic ==
    (Recommended /\ oracle_call.risk_level < 5) =>
        /\ \A k \in 1..Len(Recommendations) :
               Recommendations[k].network_condition =
                   NetworkCondition(ONLINE, 100, 1, 99, "Network optimal")
        /\ \A d \in RngDraws :
               Recommendations = LiquidityOracle_get_recommendations(
                   oracle_call.user_profile, oracle_call.risk_level,
                   [i \in 1..Len(AvailableMethods) |-> d])
        /\ AvailableMethods = ScenarioB =>
               /\ RecommendationFor(CRYPTO_WALLET).match_score = 79
               /\ RecommendationFor(MOBILE_MONEY).match_score = 87
               /\ Recommendations[1].method = MOBILE_MONEY

\* Scenario B at risk level 3, with the draws that degrade a method at a
\* higher risk level.
C15_Witness ==
    /\ Recommended
    /\ oracle_call.risk_level = 3
    /\ AvailableMethods = ScenarioB
    /\ oracle_call.draws = <<0, 0, 0, 0>>

\* C16: at a risk level of 8 or more, for wire_transfer and mobile_money, a
\* draw under 0.7 gives OFFLINE with success rate 0 and a recommendation of
\* match_score 0, a draw from 0.7 and under 0.9 gives RESTRICTED with fee
\* multiplier 2, and a draw of 0.9 or more leaves the method ONLINE.
C16_BankLikeCrisisDraw ==
    (Recommended /\ oracle_call.risk_level >= 8) =>
        \A i \in 1..Len(AvailableMethods) :
            AvailableMethods[i] \in {WIRE_TRANSFER, MOBILE_MONEY} =>
                LET reco == RecommendationFor(AvailableMethods[i])
                    r == oracle_call.draws[i]
                IN  /\ r < 70 =>
                           /\ reco.network_condition.status = OFFLINE
                           /\ reco.network_condition.success_rate = 0
                           /\ reco.match_score = 0
                    /\ (70 <= r /\ r < 90) =>
                           /\ reco.network_condition.status = RESTRICTED
                           /\ reco.network_condition.fee_multiplier = 2
                    /\ r >= 90 => reco.network_condition.status = ONLINE

\* Scenario A: risk level 9, wire_transfer alone, the draw 0.5.
C16_Witness ==
    /\ Recommended
    /\ oracle_call.risk_level = 9
    /\ AvailableMethods = <<WIRE_TRANSFER>>
    /\ oracle_call.draws = <<50>>
    /\ Recommendations[1].match_score = 0

(***************************************************************************)
(* The risk monitors: RiskMonitor of src/core/risk_monitor.py and          *)
(* EnhancedRiskMonitor with RealDataIntegration of                         *)
(* src/api/real_data_integration.py.  Of a RiskAlert the timestamp, the    *)
(* title and the description are left out: no operation here reads them.   *)
(***************************************************************************)
RiskAlert(alert_id, location, risk_type, severity, source, affected_radius_km) ==
    [alert_id |-> alert_id, location |-> location, risk_type |-> risk_type,
     severity |-> severity, source |-> source,
     affected_radius_km |-> affected_radius_km]

\* str.lower() on the letters A-Z; any other character stays
lower_case ==
    "A" :> "a" @@ "B" :> "b" @@ "C" :> "c" @@ "D" :> "d" @@ "E" :> "e" @@
    "F" :> "f" @@ "G" :> "g" @@ "H" :> "h" @@ "I" :> "i" @@ "J" :> "j" @@
    "K" :> "k" @@ "L" :> "l" @@ "M" :> "m" @@ "N" :> "n" @@ "O" :> "o" @@
    "P" :> "p" @@ "Q" :> "q" @@ "R" :> "r" @@ "S" :> "s" @@ "T" :> "t" @@
    "U" :> "u" @@ "V" :> "v" @@ "W" :> "w" @@ "X" :> "x" @@ "Y" :> "y" @@
    "Z" :> "z"

RECURSIVE lower(_)
lower(s) ==
    IF Len(s) = 0 THEN ""
    ELSE LET c == SubSeq(s, 1, 1)
         IN  (IF c \in DOMAIN lower_case THEN lower_case[c] ELSE c)
                 \o lower(SubSeq(s, 2, Len(s)))

\* abs(x)
abs(x) == IF x < 0 THEN 0 - x ELSE x

\* _is_nearby of either monitor: sqrt(lat_diff^2 + lon_diff^2) * 111 <=
\* radius_km, compared in squares.  With the differences in tenths of a
\* degree the two sides are never equal unless radius_km is a multiple of
\* 111, so the rounding of the square root does not decide the comparison.
is_nearby(loc1, loc2, radius_km) ==
    LET lat_diff == abs(loc1.latitude - loc2.latitude)
        lon_diff == abs(loc1.longitude - loc2.longitude)
    IN  /\ lat_diff * 111 <= radius_km * 10
        /\ lon_diff * 111 <= radius_km * 10
        /\ (lat_diff * lat_diff + lon_diff * lon_diff) * 12321
               <= radius_km * radius_km * 100

\* RiskMonitor.get_nearby_alerts: the alerts within the radius, in order
RiskMonitor_get_nearby_alerts(alerts, location, radius_km) ==
    SelectSeq(alerts, LAMBDA alert : is_nearby(location, alert.location, radius_km))

\* EnhancedRiskMonitor.get_nearby_alerts: the alerts within the radius and
\* the alerts of an official source whose country matches
EnhancedRiskMonitor_get_nearby_alerts(alerts, location, radius_km) ==
    LET user_country_lower == lower(location.country)
        is_same_country(alert) ==
            LET alert_country == lower(alert.location.country)
                alert_city == lower(alert.location.city)
            IN  \/ Contains(alert_country, user_country_lower)
                \/ Contains(alert_city, user_country_lower)
                \/ Contains(user_country_lower, alert_country)
    IN  SelectSeq(alerts, LAMBDA alert :
            \/ is_nearby(location, alert.location, radius_km)
            \/ /\ is_same_country(alert)
               /\ alert.source \in {"U.S. State Department", "GDELT"})

\* max(alert.severity for alert in alerts), alerts not empty
max_severity(alerts) ==
    CHOOSE s \in {alerts[i].severity : i \in 1..Len(alerts)} :
        \A i \in 1..Len(alerts) : alerts[i].severity <= s

\* the risk level taken over every active alert, nearby or not
EnhancedRiskMonitor_get_current_risk_level_all(alerts, location) ==
    IF alerts = <<>> THEN 2 ELSE max_severity(alerts)

EnhancedRiskMonitor_get_current_risk_level(alerts, location) ==
    LET nearby_alerts == EnhancedRiskMonitor_get_nearby_alerts(alerts, location, 100)
    IN  IF nearby_alerts = <<>> THEN 2 ELSE max_severity(nearby_alerts)

\* r is the value random.randint(1, 3) returns when it is called
RiskMonitor_get_current_risk_level(alerts, location, r) ==
    LET nearby_alerts == RiskMonitor_get_nearby_alerts(alerts, location, 100)
    IN  IF nearby_alerts = <<>> THEN r ELSE max_severity(nearby_alerts)

\* The alert trigger_crisis_simulation appends; t is datetime.now().
RiskMonitor_trigger_crisis_simulation(location, t) ==
    RiskAlert("alert_" \o ToString(t), location, "political_unrest", 9,
              "Reuters", 50)

RiskMonitor_generate_sample_alerts ==
    <<RiskAlert("alert_001", Location("Beirut", "Lebanon", 339, 355),
                "payment_disruption", 6, "BBC News", 100),
      RiskAlert("alert_002", Location("Kyiv", "Ukraine", 505, 305),
                "security_threat", 8, "State Department", 200)>>

\* What requests.get gives back: raises is a timeout or a connection error;
\* features is the "features" of the JSON body.
Response(raises, status_code, features) ==
    [raises |-> raises, status_code |-> status_code, features |-> features]

\* the first n elements of a list: list[:n]
Take(list, n) == SubSeq(list, 1, IF Len(list) < n THEN Len(list) ELSE n)

\* The features before the first one on which the loop body raises; bad
\* holds the places of the features it raises on.
processed(features, bad) ==
    IF bad = {} THEN features
    ELSE SubSeq(features, 1, (CHOOSE i \in bad : \A j \in bad : i <= j) - 1)

\* A GDELT feature is [name, name_hash, count, coordinates]: name is None for
\* a JSON null, name_hash is hash(name) in this process, coordinates is
\* [longitude, latitude] or shorter.  The body raises on name.lower() when
\* the name is null.  An exception ends the loop and is swallowed: the alerts
\* appended before it are returned.
RealDataIntegration_fetch_gdelt_events(response, location) ==
    IF response.raises \/ response.status_code # 200 THEN <<>>
    ELSE LET taken == Take(response.features, 3)
             features == processed(taken,
                             {i \in 1..Len(taken) : taken[i].name = None})
             is_in_user_location(feature) ==
                 \/ Contains(lower(Get(feature.name)), lower(location.country))
                 \/ Contains(lower(Get(feature.name)), lower(location.city))
             severity(event_count) ==
                 IF event_count >= 500 THEN 8
                 ELSE IF event_count >= 200 THEN 6
                 ELSE IF event_count >= 100 THEN 4
                 ELSE IF event_count >= 50 THEN 3
                 ELSE 2
             alert(feature) ==
                 RiskAlert("gdelt_" \o ToString(feature.name_hash % 100000),
                           Location(Take(Get(feature.name), 30),
                                    location.country,
                                    IF Len(feature.coordinates) > 1
                                    THEN feature.coordinates[2]
                                    ELSE location.latitude,
                                    IF Len(feature.coordinates) > 0
                                    THEN feature.coordinates[1]
                                    ELSE location.longitude),
                           "political_unrest", severity(feature.count),
                           "GDELT", 100)
             kept == SelectSeq(features, is_in_user_location)
         IN  [i \in 1..Len(kept) |-> alert(kept[i])]

RealDataIntegration_create_sample_earthquake_alert ==
    RiskAlert("usgs_sample", Location("Tokyo", "Japan", 357, 1397),
              "natural_disaster", 6, "USGS", 50)

\* int(x) for x = num / den, den > 0: the fraction cut towards zero
int_of(num, den) == IF num >= 0 THEN num \div den ELSE 0 - ((0 - num) \div den)

\* A USGS feature is [properties, coordinates]: properties holds place, code
\* and, unless the key is missing, mag, the magnitude in tenths or None for
\* a JSON null.  The body raises on coords[1] when there are fewer than two
\* coordinates and on magnitude * 1.5 when the magnitude is null.
usgs_raises_on(feature) ==
    \/ Len(feature.coordinates) < 2
    \/ ("mag" \in DOMAIN feature.properties /\ feature.properties.mag = None)

\* Lines 106-149.  An exception, of requests.get or of the loop body, ends
\* the try block; the handler appends the sample alert to what the loop had
\* appended so far.  A status other than 200 is no exception.
RealDataIntegration_fetch_earthquake_data(response) ==
    IF response.raises
    THEN <<RealDataIntegration_create_sample_earthquake_alert>>
    ELSE IF response.status_code # 200 THEN <<>>
    ELSE LET taken == Take(response.features, 5)
             features == processed(taken,
                             {i \in 1..Len(taken) : usgs_raises_on(taken[i])})
             alerts ==
                 [i \in 1..Len(features) |->
                     LET props == features[i].properties
                         magnitude == IF "mag" \in DOMAIN props
                                      THEN Get(props.mag) ELSE 0
                     IN  RiskAlert("usgs_" \o props.code,
                                   Location(props.place, "",
                                            features[i].coordinates[2],
                                            features[i].coordinates[1]),
                                   "natural_disaster",
                                   LET severity == int_of(magnitude * 15, 100)
                                   IN  IF severity > 10 THEN 10 ELSE severity,
                                   "USGS", 50)]
         IN  IF Len(features) < Len(taken)
             THEN Append(alerts, RealDataIntegration_create_sample_earthquake_alert)
             ELSE alerts

RealDataIntegration_fetch_state_dept_alerts(country) ==
    CASE country = "Turkey" ->
             <<RiskAlert("state_dept_turkey",
                         Location("Ankara", "Turkey", 399, 329),
                         "security_threat", 6, "U.S. State Department", 500)>>
      [] country = "Ukraine" ->
             <<RiskAlert("state_dept_ukraine",
                         Location("Kyiv", "Ukraine", 505, 305),
                         "security_threat", 9, "U.S. State Department", 1000)>>
      [] OTHER -> <<>>

\* active_alerts with every alert held before the refresh kept
EnhancedRiskMonitor_active_alerts_extended(held, new_alerts) == held \o new_alerts

\* self.active_alerts = new_alerts (line 233): what was held is dropped
EnhancedRiskMonitor_active_alerts_assigned(held, new_alerts) == new_alerts

\* new_alerts of refresh_all_data
EnhancedRiskMonitor_refresh_all_data(gdelt, usgs, user_location) ==
    RealDataIntegration_fetch_gdelt_events(gdelt, user_location)
        \o RealDataIntegration_fetch_earthquake_data(usgs)
        \o RealDataIntegration_fetch_state_dept_alerts(user_location.country)

\* Where the user can be: the sample profile's Kyiv, a city whose country
\* has a travel advisory centred elsewhere, the city of the sample
\* earthquake, a city with no alert of its own, and a city of a country
\* whose name is the beginning of another country's name.
LocationInputs ==
    {kyiv,
     Location("Istanbul", "Turkey", 410, 290),
     Location("Tokyo", "Japan", 357, 1397),
     Location("Lisbon", "Portugal", 387, 0 - 91),
     Location("Niamey", "Niger", 135, 21)}

\* A city of the neighbouring country, some 780 km from Niamey.
lagos == Location("Lagos", "Nigeria", 65, 34)

GdeltFeature(name, name_hash, count, coordinates) ==
    [name |-> name, name_hash |-> name_hash, count |-> count,
     coordinates |-> coordinates]

GdeltResponses ==
    LET in_kyiv == GdeltFeature(Some("Kyiv, Kyiv City, Ukraine"), 7340215, 500,
                                <<305, 505>>)
        in_istanbul == GdeltFeature(Some("Istanbul"), 99999, 60, <<>>)
        in_niamey == GdeltFeature(Some("Niamey, Niger"), 551, 200, <<21, 135>>)
        null_name == GdeltFeature(None, 0, 0, <<0, 0>>)
    IN  {Response(TRUE, 0, <<>>), Response(FALSE, 503, <<>>)}
            \cup {Response(FALSE, 200, f) :
                    f \in {<<>>, <<in_kyiv>>, <<in_istanbul>>, <<in_niamey>>,
                           <<null_name>>, <<in_kyiv, null_name>>}}

UsgsResponses ==
    LET minor == [properties |-> [place |-> "4 km W of Lisbon, Portugal",
                                  code |-> "pt0001", mag |-> Some(5)],
                  coordinates |-> <<0 - 92, 387, 100>>]
        major == [properties |-> [place |-> "12 km E of Tokyo, Japan",
                                  code |-> "us7000", mag |-> Some(72)],
                  coordinates |-> <<1398, 357, 100>>]
        null_mag == [properties |-> [place |-> "Kyiv region", code |-> "ua0002",
                                     mag |-> None],
                     coordinates |-> <<305, 505, 100>>]
    IN  {Response(TRUE, 0, <<>>), Response(FALSE, 503, <<>>)}
            \cup {Response(FALSE, 200, f) :
                    f \in {<<>>, <<minor>>, <<major>>, <<null_mag>>,
                           <<major, null_mag>>}}

\* how many crisis alerts a session triggers
MaxCrisis == 1

\* A session: the monitor is created with no alert, for a user who stays
\* where they are.
RiskInit ==
    /\ active_alerts = <<>>
    /\ current_location \in LocationInputs
    /\ monitor_call = NoCall
    /\ now = 0
    /\ payout_transaction = None
    /\ issued = None
    /\ polls = <<>>
    /\ last_call = NoCall
    /\ OracleIdle
    /\ ChaosIdle

\* monitor.refresh_all_data(user.current_location): at start-up, on "Refresh
\* Data" and on "Reset Demo".  The two requests are answered as the network
\* has it.
RefreshData ==
    /\ \E gdelt \in GdeltResponses, usgs \in UsgsResponses :
          LET new_alerts == EnhancedRiskMonitor_refresh_all_data(
                                gdelt, usgs, current_location) IN
          /\ active_alerts' = EnhancedRiskMonitor_active_alerts_assigned(
                                   active_alerts, new_alerts)
          /\ monitor_call' =
                 [op |-> "refresh_all_data", gdelt |-> gdelt, usgs |-> usgs,
                  before |-> active_alerts, raised |-> "",
                  value |-> Some(new_alerts)]
    /\ UNCHANGED <<current_location, payout_vars, oracle_vars,
                 chaos_vars>>

\* "Trigger Crisis": the alert of a temporary RiskMonitor is appended to the
\* session's monitor.
TriggerCrisis ==
    /\ Len(SelectSeq(active_alerts, LAMBDA a : a.source = "Reuters")) < MaxCrisis
    /\ active_alerts' = Append(active_alerts,
           RiskMonitor_trigger_crisis_simulation(current_location, now))
    /\ monitor_call' = [op |-> "trigger_crisis_simulation"]
    /\ UNCHANGED <<current_location, payout_vars, oracle_vars,
                 chaos_vars>>

\* current_risk = monitor.get_current_risk_level(user.current_location)
GetCurrentRiskLevel ==
    /\ monitor_call' =
           [op |-> "get_current_risk_level", monitor |-> "EnhancedRiskMonitor",
            alerts |-> active_alerts,
            nearby |-> EnhancedRiskMonitor_get_nearby_alerts(
                           active_alerts, current_location, 100),
            value |-> EnhancedRiskMonitor_get_current_risk_level(
                          active_alerts, current_location)]
    /\ UNCHANGED <<active_alerts, current_location, payout_vars, oracle_vars,
                 chaos_vars>>

\* monitor.get_nearby_alerts(location, radius_km) about the user's location
\* or about another city, with the default radius and with the 500 km of the
\* map and of the list of active alerts.
GetNearbyAlerts ==
    /\ \E location \in {current_location, lagos}, radius_km \in {100, 500} :
          monitor_call' =
              [op |-> "get_nearby_alerts", location |-> location,
               radius_km |-> radius_km,
               value |-> EnhancedRiskMonitor_get_nearby_alerts(
                             active_alerts, location, radius_km)]
    /\ UNCHANGED <<active_alerts, current_location, payout_vars, oracle_vars,
                 chaos_vars>>

\* get_current_risk_level of a RiskMonitor of its own: new, after
\* generate_sample_alerts() or after trigger_crisis_simulation.
RiskMonitorLevel ==
    /\ \E alerts \in {<<>>, RiskMonitor_generate_sample_alerts,
                      <<RiskMonitor_trigger_crisis_simulation(current_location, now)>>},
          r \in 1..3 :
          monitor_call' =
              [op |-> "get_current_risk_level", monitor |-> "RiskMonitor",
               alerts |-> alerts,
               nearby |-> RiskMonitor_get_nearby_alerts(
                              alerts, current_location, 100),
               value |-> RiskMonitor_get_current_risk_level(
                             alerts, current_location, r)]
    /\ UNCHANGED <<active_alerts, current_location, payout_vars, oracle_vars,
                 chaos_vars>>

RiskNext ==
    \/ RefreshData
    \/ TriggerCrisis
    \/ GetCurrentRiskLevel
    \/ GetNearbyAlerts
    \/ RiskMonitorLevel

RiskSpec == RiskInit /\ [][RiskNext]_vars

(***************************************************************************)
(* Properties of the risk monitors.                                        *)
(***************************************************************************)
RiskLevelTaken == monitor_call.op = "get_current_risk_level"
Refreshed == monitor_call.op = "refresh_all_data"
Severities(alerts) == {alerts[i].severity : i \in 1..Len(alerts)}

\* C17: when at least one active alert is nearby the location,
\* get_current_risk_level returns the greatest severity among the nearby
\* alerts: the severity of one of them, and none of them has a greater one.
C17_MaxSeverityOfNearby ==
    (RiskLevelTaken /\ monitor_call.nearby # <<>>) =>
        /\ monitor_call.value \in Severities(monitor_call.nearby)
        /\ \A s \in Severities(monitor_call.nearby) : s <= monitor_call.value

\* The session's monitor holds two nearby alerts of different severity and,
\* elsewhere, an alert more severe than both.
C17_Witness ==
    /\ RiskLevelTaken
    /\ monitor_call.monitor = "EnhancedRiskMonitor"
    /\ Cardinality(Severities(monitor_call.nearby)) >= 2
    /\ \E s \in Severities(monitor_call.alerts) : s > monitor_call.value

\* C18: when no active alert is nearby the location, get_current_risk_level
\* returns the baseline 2, on every call.
C18_BaselineIsTwo ==
    (RiskLevelTaken /\ monitor_call.nearby = <<>>) => monitor_call.value = 2

\* C19: get_current_risk_level returns an integer from 1 to 10, whatever the
\* location and whatever alerts the refreshes and the crisis triggers have
\* left in the monitor.
C19_RiskLevelInRange ==
    RiskLevelTaken => monitor_call.value \in 1..10

\* the fetch of a source failed: a timeout, a status other than 200, or a
\* payload with a feature the loop body raises on (bad holds their places)
FetchFailed(response, bad) ==
    \/ response.raises
    \/ response.status_code # 200
    \/ bad # {}

\* C20: refresh_all_data raises nothing when the fetch of a source fails,
\* and the alerts of that refresh hold no alert of the failed source.
C20_FailedSourceGivesNoAlert ==
    Refreshed =>
        LET new_alerts == Get(monitor_call.value)
            from(source) == SelectSeq(new_alerts, LAMBDA a : a.source = source)
        IN  /\ monitor_call.raised = ""
            /\ FetchFailed(monitor_call.gdelt,
                           {i \in 1..Len(monitor_call.gdelt.features) :
                               monitor_call.gdelt.features[i].name = None})
                   => from("GDELT") = <<>>
            /\ FetchFailed(monitor_call.usgs,
                           {i \in 1..Len(monitor_call.usgs.features) :
                               usgs_raises_on(monitor_call.usgs.features[i])})
                   => from("USGS") = <<>>

(***************************************************************************)
(* Further properties of the payout session.                               *)
(***************************************************************************)
\* C21: no operation produces a transaction with status failed: the
\* transaction initiate_payout returned, the transaction the session holds
\* and every transaction a check_status call returned have one of the
\* statuses pending, processing, completed.
C21_NeverFailed ==
    LET Produced == {"pending", "processing", "completed"} IN
    /\ Held => Tx.status \in Produced
    /\ issued # None => Get(issued).status \in Produced
    /\ \A i \in PollIndex : polls[i].status \in Produced

\* A cash pickup polled again two days after it was started, long after it
\* completed.
C21_Witness ==
    /\ Held
    /\ Tx.method = CASH_PICKUP
    /\ Len(polls) >= 2
    /\ polls[1].status = "completed"
    /\ ElapsedAt(Len(polls)) >= 172800

(***************************************************************************)
(* Further properties of the liquidity oracle.                             *)
(***************************************************************************)
\* how many times a badge stands in a list of badges
BadgeCount(badges, badge) == Cardinality({i \in 1..Len(badges) : badges[i] = badge})

\* C22: for every recommendation whose network condition is not OFFLINE,
\* match_score is the integer part, held within 0..100, of
\* (adj_speed * w_speed + reliability * w_reliability + cost * w_cost) * 10,
\* times 0.7 when the status is RESTRICTED, with adj_speed the speed trait,
\* halved when the status is CONGESTED, and the weights (0.50, 0.40, 0.10)
\* from risk level 7 and (0.30, 0.30, 0.40) below.  The value raw is kept as
\* the fraction n / d and the integer part s as s * d <= n < (s + 1) * d.
C22_ScoreFormula ==
    Recommended =>
        \A k \in 1..Len(Recommendations) :
            LET reco == Recommendations[k]
                status == reco.network_condition.status
                traits == METHOD_Traits_get(reco.method)
                crisis == oracle_call.risk_level >= 7
                w_speed == IF crisis THEN 50 ELSE 30
                w_reliability == IF crisis THEN 40 ELSE 30
                w_cost == IF crisis THEN 10 ELSE 40
                \* twice the weighted sum, the weights in hundredths
                twice == (IF status = CONGESTED THEN 1 ELSE 2) * traits.speed * w_speed
                             + 2 * traits.reliability * w_reliability
                             + 2 * traits.cost * w_cost
                n == (IF status = RESTRICTED THEN 7 ELSE 10) * twice
                d == 200
                s == reco.match_score
            IN  status # OFFLINE =>
                    /\ s \in 0..100
                    /\ (n >= 0 /\ n < 100 * d) => (s * d <= n /\ n < (s + 1) * d)
                    /\ n >= 100 * d => s = 100
                    /\ n < 0 => s = 0

\* One call returns a congested method, whose halved speed leaves a score
\* with a fractional part of one half, and a restricted one.
C22_Witness ==
    /\ Recommended
    /\ \E k \in 1..Len(Recommendations) :
           /\ Recommendations[k].network_condition.status = CONGESTED
           /\ Recommendations[k].match_score = 61
    /\ \E k \in 1..Len(Recommendations) :
           /\ Recommendations[k].network_condition.status = RESTRICTED
           /\ Recommendations[k].match_score = 39

\* C23: of the recommendations get_recommendations returns at most one
\* carries the best-match badge; it carries it once, is the first of the
\* list and has a match_score above 0; when every method scored 0 none
\* carries it.
C23_BestMatchOnceOnWinner ==
    Recommended =>
        LET count(k) == BadgeCount(Recommendations[k].badges, "Best Match")
            carriers == {k \in 1..Len(Recommendations) : count(k) > 0}
        IN  /\ Cardinality(carriers) <= 1
            /\ \A k \in carriers :
                   /\ count(k) = 1
                   /\ k = 1
                   /\ Recommendations[k].match_score > 0
            /\ (\A k \in 1..Len(Recommendations) :
                    Recommendations[k].match_score = 0) => carriers = {}

\* The winner was not the first method of the list given, and the first
\* method of the list is unavailable.
C23_Witness ==
    /\ Recommended
    /\ Len(Recommendations) = 3
    /\ Recommendations[1].method # AvailableMethods[1]
    /\ BadgeCount(Recommendations[1].badges, "Best Match") = 1
    /\ RecommendationFor(AvailableMethods[1]).match_score = 0

\* C29: whatever the risk level, the methods enabled and the draws, no
\* recommendation has a match_score above 87, and so none carries the
\* "Recommended" badge, which takes a score above 90.
C29_ScoreAtMost87 ==
    Recommended =>
        \A k \in 1..Len(Recommendations) :
            /\ Recommendations[k].match_score <= 87
            /\ BadgeCount(Recommendations[k].badges, "Recommended") = 0

\* The greatest score is reached: mobile money, online, under the weights of
\* a risk level below 7.
C29_Witness ==
    /\ Recommended
    /\ Len(Recommendations) = 4
    /\ Recommendations[1].method = MOBILE_MONEY
    /\ Recommendations[1].match_score = 87

NearbyTaken == monitor_call.op = "get_nearby_alerts"

\* C24: an alert outside the radius is among the alerts get_nearby_alerts
\* returns only if its source is one of the official sources and its
\* location's country or city matches the country asked about as a
\* substring; an alert outside the radius that is from another country, or
\* from another source, is never returned.
C24_CountryWideOnlyOfficialSameCountry ==
    NearbyTaken =>
        \A k \in 1..Len(monitor_call.value) :
            LET alert == monitor_call.value[k]
                country == lower(monitor_call.location.country)
            IN  ~is_nearby(monitor_call.location, alert.location,
                           monitor_call.radius_km)
                    => /\ alert.source \in {"U.S. State Department", "GDELT"}
                       /\ \/ Contains(lower(alert.location.country), country)
                          \/ Contains(lower(alert.location.city), country)
                          \/ Contains(country, lower(alert.location.country))
                       /\ lower(alert.location.country) = country

\* C25: after refresh_all_data, active_alerts is the list of the alerts
\* fetched in that refresh, source by source, and nothing else: no alert held
\* before, a triggered crisis alert included, is left in it.
C25_RefreshReplacesAlerts ==
    Refreshed =>
        /\ active_alerts =
               RealDataIntegration_fetch_gdelt_events(
                   monitor_call.gdelt, current_location)
               \o RealDataIntegration_fetch_earthquake_data(monitor_call.usgs)
               \o RealDataIntegration_fetch_state_dept_alerts(
                      current_location.country)
        /\ \A k \in 1..Len(active_alerts) : active_alerts[k].source # "Reuters"

\* The monitor held a triggered crisis alert when it was refreshed, and the
\* refresh fetched something.
C25_Witness ==
    /\ Refreshed
    /\ \E k \in 1..Len(monitor_call.before) :
           monitor_call.before[k].source = "Reuters"
    /\ active_alerts # <<>>

(***************************************************************************)
(* The ChaosSimulator of src/core/hackathon_features.py: the network       *)
(* effects it shows for a chaos level, or for the alerts it was given.     *)
(***************************************************************************)
\* alerts a simulator holds at most
MaxAlerts == 2

\* What _analyze_alerts_for_network_effects reads of an alert: the value of
\* its risk_type (None when the alert has none), its severity, title and
\* description.
ChaosAlert(risk_type, severity, title, description) ==
    [risk_type |-> risk_type, severity |-> severity,
     title |-> title, description |-> description]

\* self.current_level after set_level(level)
ChaosSimulator_set_level(level) ==
    LET capped == IF level < 10 THEN level ELSE 10
    IN  IF capped > 0 THEN capped ELSE 0

\* self.alerts after set_alerts(alerts): None becomes the empty list
ChaosSimulator_set_alerts(alerts) == IF alerts = None THEN <<>> ELSE Get(alerts)

\* the status dict before the first alert
all_online ==
    [banking |-> "ONLINE", atm |-> "ONLINE", crypto |-> "ONLINE",
     mobile_money |-> "ONLINE", cash_pickup |-> "ONLINE"]

\* One pass of the loop over the alerts (lines 288-333): four tests one
\* after the other, each assigning the channels it names.
ChaosSimulator_alert_effects(status, alert) ==
    IF alert.risk_type = None THEN status
    ELSE
    LET risk_value == Get(alert.risk_type)
        severity == alert.severity
        title == lower(alert.title)
        description == lower(alert.description)
        natural ==
            IF \/ Contains(risk_value, "natural")
               \/ Contains(risk_value, "disaster")
               \/ Contains(title, "earthquake")
            THEN IF severity >= 7
                 THEN [status EXCEPT !.atm = "OFFLINE",
                                     !.mobile_money = "RESTRICTED"]
                 ELSE IF severity >= 5
                 THEN [status EXCEPT !.atm = "CONGESTED",
                                     !.mobile_money = "CONGESTED"]
                 ELSE status
            ELSE status
        payment ==
            IF \/ Contains(risk_value, "payment")
               \/ Contains(risk_value, "disruption")
            THEN IF severity >= 7
                 THEN [natural EXCEPT !.banking = "OFFLINE", !.atm = "OFFLINE"]
                 ELSE IF severity >= 5
                 THEN [natural EXCEPT !.banking = "CONGESTED"]
                 ELSE natural
            ELSE natural
        security ==
            IF \/ Contains(risk_value, "security")
               \/ Contains(description, "conflict")
               \/ Contains(description, "armed")
            THEN IF severity >= 9
                 THEN [payment EXCEPT !.banking = "RESTRICTED",
                                      !.atm = "OFFLINE",
                                      !.cash_pickup = "OFFLINE",
                                      !.mobile_money = "RESTRICTED"]
                 ELSE IF severity >= 7
                 THEN [payment EXCEPT !.banking = "CONGESTED",
                                      !.atm = "RESTRICTED",
                                      !.cash_pickup = "CONGESTED"]
                 ELSE payment
            ELSE payment
        political ==
            IF \/ Contains(risk_value, "political")
               \/ Contains(risk_value, "unrest")
            THEN IF severity >= 8
                 THEN [security EXCEPT !.banking = "CONGESTED",
                                       !.atm = "CONGESTED",
                                       !.cash_pickup = "CONGESTED"]
                 ELSE security
            ELSE security
    IN  political

\* The status dict before the first pass of the loop and after each of the
\* first n passes.
RECURSIVE ChaosSimulator_loop_statuses(_, _)
ChaosSimulator_loop_statuses(alerts, n) ==
    IF n = 0 THEN <<all_online>>
    ELSE LET before == ChaosSimulator_loop_statuses(alerts, n - 1)
         IN  Append(before, ChaosSimulator_alert_effects(before[n], alerts[n]))

\* the status dict returned as the loop left it
ChaosSimulator_analyze_alerts_crypto_untouched(alerts) ==
    ChaosSimulator_loop_statuses(alerts, Len(alerts))[Len(alerts) + 1]

\* _analyze_alerts_for_network_effects: the loop, then crypto (lines 335-341)
ChaosSimulator_analyze_alerts_for_network_effects(alerts) ==
    LET status == ChaosSimulator_loop_statuses(alerts, Len(alerts))[Len(alerts) + 1]
    IN  [status EXCEPT !.crypto = IF status.banking = "OFFLINE"
                                  THEN "CONGESTED" ELSE "ONLINE"]

\* _get_level_based_effects
ChaosSimulator_get_level_based_effects(level) ==
    IF level <= 2 THEN
        [banking |-> "ONLINE", atm |-> "ONLINE", crypto |-> "ONLINE",
         mobile_money |-> "ONLINE", cash_pickup |-> "ONLINE"]
    ELSE IF level <= 5 THEN
        [banking |-> "CONGESTED", atm |-> "ONLINE", crypto |-> "ONLINE",
         mobile_money |-> "ONLINE", cash_pickup |-> "CONGESTED"]
    ELSE IF level <= 7 THEN
        [banking |-> "RESTRICTED", atm |-> "RESTRICTED", crypto |-> "CONGESTED",
         mobile_money |-> "ONLINE", cash_pickup |-> "RESTRICTED"]
    ELSE
        [banking |-> "OFFLINE", atm |-> "OFFLINE", crypto |-> "ONLINE",
         mobile_money |-> "RESTRICTED", cash_pickup |-> "OFFLINE"]

\* get_network_effects: the alerts if there are any, the level otherwise
ChaosSimulator_get_network_effects(self) ==
    IF self.alerts # <<>>
    THEN ChaosSimulator_analyze_alerts_for_network_effects(self.alerts)
    ELSE ChaosSimulator_get_level_based_effects(self.current_level)

\* The slider's levels, and an integer on either side of its range.
LevelInputs == (0 - 1)..11

\* Alerts as the risk monitor's sources build them: an earthquake, a payment
\* outage, the travel advisory for Ukraine, a lower advisory, heavy news
\* activity, and an object with no risk_type.
ChaosAlertInputs ==
    {ChaosAlert(Some("natural_disaster"), 7,
                "Earthquake: Magnitude 5.2", "Moderate earthquake detected"),
     ChaosAlert(Some("payment_disruption"), 7,
                "Bank outage", "Card payments suspended"),
     ChaosAlert(Some("security_threat"), 9,
                "Ukraine Travel Advisory - Level 4",
                "Do not travel due to armed conflict and civil unrest"),
     ChaosAlert(Some("security_threat"), 7,
                "Travel Advisory - Level 3", "Reconsider travel"),
     ChaosAlert(Some("political_unrest"), 8,
                "News Activity: Kyiv", "250 news mentions in past 7 days"),
     ChaosAlert(None, 9, "", "")}

ChaosAlertLists ==
    UNION {[1..n -> ChaosAlertInputs] : n \in 0..MaxAlerts}

\* simulator.set_level(level), as the slider of the demo calls it
SetLevel ==
    /\ \E level \in LevelInputs :
          simulator' =
              [simulator EXCEPT !.current_level = ChaosSimulator_set_level(level)]
    /\ chaos_call' = NoCall
    /\ UNCHANGED <<payout_vars, oracle_vars, monitor_vars>>

\* simulator.set_alerts(alerts), with a list or with None
SetAlerts ==
    /\ \E alerts \in {None} \cup {Some(l) : l \in ChaosAlertLists} :
          simulator' =
              [simulator EXCEPT !.alerts = ChaosSimulator_set_alerts(alerts)]
    /\ chaos_call' = NoCall
    /\ UNCHANGED <<payout_vars, oracle_vars, monitor_vars>>

\* simulator.get_network_effects().  In alert mode the record keeps the
\* status dict as each pass of the loop left it.
GetNetworkEffects ==
    /\ chaos_call' =
           [op |-> "get_network_effects",
            statuses |->
                IF simulator.alerts # <<>>
                THEN ChaosSimulator_loop_statuses(
                         simulator.alerts, Len(simulator.alerts))
                ELSE <<>>,
            value |-> ChaosSimulator_get_network_effects(simulator)]
    /\ UNCHANGED <<simulator, payout_vars, oracle_vars, monitor_vars>>

ChaosNext == SetLevel \/ SetAlerts \/ GetNetworkEffects

ChaosSpec == Init /\ [][ChaosNext]_vars

(***************************************************************************)
(* Properties of the chaos simulator.                                      *)
(***************************************************************************)
EffectsTaken == chaos_call.op = "get_network_effects"
AlertMode == EffectsTaken /\ simulator.alerts # <<>>
LevelMode == EffectsTaken /\ simulator.alerts = <<>>

\* ONLINE < CONGESTED < RESTRICTED < OFFLINE
Severity(status) ==
    CASE status = "ONLINE" -> 0
      [] status = "CONGESTED" -> 1
      [] status = "RESTRICTED" -> 2
      [] status = "OFFLINE" -> 3

\* C26: in alert mode, no pass of the loop leaves banking, atm, mobile_money
\* or cash_pickup with a status less severe than the one the alerts before
\* it had set for that channel.
C26_AlertEffectsNeverImprove ==
    AlertMode =>
        \A k \in 1..Len(simulator.alerts) :
            LET before == chaos_call.statuses[k]
                after == chaos_call.statuses[k + 1]
            IN  /\ Severity(after.banking) >= Severity(before.banking)
                /\ Severity(after.atm) >= Severity(before.atm)
                /\ Severity(after.mobile_money) >= Severity(before.mobile_money)
                /\ Severity(after.cash_pickup) >= Severity(before.cash_pickup)

\* C27: in alert mode, crypto in the result is CONGESTED exactly when
\* banking in the result is OFFLINE, and ONLINE otherwise.
C27_CryptoFollowsBanking ==
    AlertMode =>
        chaos_call.value.crypto =
            IF chaos_call.value.banking = "OFFLINE" THEN "CONGESTED" ELSE "ONLINE"

\* A payment outage among the alerts took banking offline.
C27_Witness ==
    /\ AlertMode
    /\ chaos_call.value.banking = "OFFLINE"
    /\ chaos_call.value.crypto = "CONGESTED"

\* C28: with no alerts set, every channel's status at the current level is at
\* least as severe as its status at every lower level of 0..10.
C28_HigherLevelNeverImproves ==
    LevelMode =>
        \A a \in 0..(simulator.current_level - 1) :
            LET lower_effects == ChaosSimulator_get_level_based_effects(a)
                effects == chaos_call.value
            IN  /\ Severity(effects.banking) >= Severity(lower_effects.banking)
                /\ Severity(effects.atm) >= Severity(lower_effects.atm)
                /\ Severity(effects.crypto) >= Severity(lower_effects.crypto)
                /\ Severity(effects.mobile_money)
                       >= Severity(lower_effects.mobile_money)
                /\ Severity(effects.cash_pickup)
                       >= Severity(lower_effects.cash_pickup)

====
